---- MODULE Spec2Model ----
(***************************************************************************)
(* A state-machine model of the product_critiquer session orchestration:   *)
(*   - ProductCritiquer.__init__ / cleanup          (crew.py)              *)
(*   - ProductCritiquer.kickoff_with_verification   (crew.py)              *)
(*   - run(), the shipped entry point               (main.py)              *)
(*   - InputLoader.validate_config                  (config/inputs.py)     *)
(*   - InputLoader.load_and_validate                (config/inputs.py)     *)
(*   - the files written by sessions run side by side (crew.py)            *)
(*   - the Click Element tool, click_element   (tools/playwright_tools.py) *)
(* The crews (research, navigation, verification, interview/report) are    *)
(* external collaborators: each call either returns a value drawn from a   *)
(* small set or raises.                                                    *)
(***************************************************************************)
EXTENDS Integers, Sequences, FiniteSets, TLC

VARIABLES
    pc,                      \* position of the session's single thread of control
    entry,                   \* which entry point drives the session
    inputs,                  \* the inputs mapping handed to the entry point
    stagehand_tool,          \* self.stagehand_tool: "unset" | "tool" | "None"
    browser,                 \* the browser session behind the tool: "none" | "open" | "closed"
    exc,                     \* the stage whose exception is propagating ("none" if none)
    running,                 \* the crews whose kickoff has been called and has not ended
    navigation_retry_count,  \* local of kickoff_with_verification
    navigation_approved,     \* local of kickoff_with_verification
    navigation_result,       \* local of kickoff_with_verification
    verification_result,     \* local of kickoff_with_verification
    retry_guidance,          \* local of kickoff_with_verification: <<>> while unbound
    persona_research_result, \* local of kickoff_with_verification
    final_result,            \* local of kickoff_with_verification
    returned,                \* <<>> until kickoff_with_verification returns, then <<dict>>
    researchCalls,           \* arguments of each research crew kickoff, in order
    navCalls,                \* arguments of each navigation crew kickoff, in order
    verifyCalls,             \* arguments of each verification crew kickoff, in order
    finalCalls,              \* arguments of each interview/report crew kickoff, in order
    verdicts,                \* what each verification crew kickoff returned, in order
    decisions,               \* the "Verification decision: ..." lines printed, in order
    printed,                 \* for each iteration, the lines printed after its verification
    crew_tasks_run,          \* run(): the tasks the sequential crew has executed, in order
    cleanup_calls,           \* number of calls of cleanup()
    close_calls,             \* number of calls of stagehand_tool.close()
    open_calls,              \* number of StagehandTool constructions
    cleanup_reports,         \* what cleanup() has returned or logged about itself, in order
    config,                  \* validate_config: the configuration being validated
    v_pc,                    \* validate_config: "idle" | "called" | "returned" | "raised"
    v_error,                 \* validate_config: the ValueError raised (NoError if none)
    s_pc,                    \* concurrent sessions: position of each session
    s_entry,                 \* concurrent sessions: entry point of each session
    s_persona,               \* concurrent sessions: inputs["persona_type"] of each session
    s_tasks,                 \* concurrent sessions: number of crew tasks each has completed
    writers,                 \* concurrent sessions: for each file path, the sessions that wrote it
    l_pc,                    \* load_and_validate: "idle" | "called" | "returned" | "raised"
    l_suffix,                \* load_and_validate: Path(file_path).suffix
    l_file,                  \* load_and_validate: the file at file_path
    l_outcome,               \* load_and_validate: what the call ended with
    c_pc,                    \* click_element: position in the function
    c_selector,              \* click_element: the selector argument
    c_next,                  \* click_element: index of the strategy to try next
    c_tried,                 \* click_element: the strategy blocks entered, with how each ended
    c_clicks,                \* click_element: the strategies that made a click call, in order
    c_result                 \* click_element: the message returned

vars == <<pc, entry, inputs, stagehand_tool, browser, exc, running,
          navigation_retry_count, navigation_approved, navigation_result,
          verification_result, retry_guidance, persona_research_result, final_result,
          returned, researchCalls, navCalls, verifyCalls, finalCalls, verdicts, decisions,
          printed, crew_tasks_run, cleanup_calls, close_calls, open_calls,
          cleanup_reports, config, v_pc, v_error, s_pc, s_entry, s_persona, s_tasks,
          writers, l_pc, l_suffix, l_file, l_outcome, c_pc, c_selector, c_next, c_tried,
          c_clicks, c_result>>

(***************************************************************************)
(* Bounds and program constants                                            *)
(***************************************************************************)

\* Number of distinct non-empty retry_guidance texts a verdict may carry.
NumGuidance == 1

\* Number of testing instructions a navigation result and a verdict report on.
NumTasks == 1

\* crew.py:139  max_navigation_retries = 3
max_navigation_retries == 3

\* main.py:25  "max_attempts": 3, the limit run() gives its first testing instruction
instruction_max_attempts == 3

\* Guidance text 0 is the empty string, the field's default.
GuidanceIds == 0..NumGuidance

(***************************************************************************)
(* Values                                                                  *)
(***************************************************************************)

\* A value handed around by the orchestrator: what it is, and which one.
Item(kind, id) == [kind |-> kind, id |-> id]

NoneItem == Item("None", 0)

\* The keys of the inputs mapping; testing_instructions is optional.
RequiredKeys == {"app_url", "persona_type"}

AllKeys == RequiredKeys \cup {"testing_instructions"}

\* The inputs mapping of a session: each key holds the caller's value for it.
InputsOver(keys) == [k \in keys |-> Item(k, 0)]

PossibleInputs ==
    {InputsOver(RequiredKeys), InputsOver(AllKeys), InputsOver(AllKeys \ {"app_url"})}

\* run() builds its inputs literally, always with app_url and persona_type.
RunInputs == {i \in PossibleInputs : RequiredKeys \subseteq DOMAIN i}

\* The inputs an entry point can be handed: run() has its literal, a caller of
\* kickoff_with_verification passes any mapping.
EntryInputs(e) == IF e = "run" THEN RunInputs ELSE PossibleInputs

\* Whether a mapping given to a crew carries the value `item` under some key.
Carries(arg, item) == \E k \in DOMAIN arg : arg[k] = item

\* TestingInstructionResult, reduced to its two counters.  The class declares two
\* plain int fields and no validator, so a result may report more attempts than
\* the instruction allows.
TestingInstructionResult ==
    [max_attempts : {instruction_max_attempts},
     attempts_made : {instruction_max_attempts, instruction_max_attempts + 1}]

\* The testing_instruction_results a navigation result may carry, one per instruction.
TestingInstructionResultLists == [1..NumTasks -> TestingInstructionResult]

\* What navigation_crew.kickoff returns in iteration n.
NavigationResult(n, irs) ==
    [kind |-> "navigation_result", id |-> n, testing_instruction_results |-> irs]

\* A printed line: its text, and what is interpolated into it.
Line(text, decision, n) == [text |-> text, decision |-> decision, n |-> n]

\* VerificationDecision
VerificationDecision == {"PROCEED", "RETRY", "ACCEPTABLE_WITH_MAX_ATTEMPTS"}

\* What the verification crew's kickoff may return in iteration `n`:
\*   shape "None"             a falsy result
\*   shape "no_pydantic_attr" an object without a pydantic attribute
\*   shape "pydantic_none"    an object whose pydantic attribute is None
\*   shape "structured"       an object carrying a NavigationVerificationOutput
\* Its task_verifications lists one TaskVerificationResult per instruction.
Verdict(shape, d, g, tv, n) ==
    [shape |-> shape, final_decision |-> d, retry_guidance |-> g,
     task_verifications |-> tv, id |-> n]

NoVerdict == Verdict("unset", "None", 0, <<>>, 0)

\* TaskVerificationResult, reduced to the flag the retry policy is about.
TaskVerificationResult == [can_retry : BOOLEAN]

\* The task_verifications lists a verdict may carry; the model is not validated
\* against the decision, so every combination of flags can come with every decision.
TaskVerificationLists == [1..NumTasks -> TaskVerificationResult]

VerificationResults(n) ==
    {Verdict(s, "None", 0, <<>>, n) : s \in {"None", "no_pydantic_attr", "pydantic_none"}}
    \cup {Verdict("structured", d, g, tv, n) :
              d \in VerificationDecision, g \in GuidanceIds, tv \in TaskVerificationLists}

(***************************************************************************)
(* Pure parts of kickoff_with_verification                                 *)
(***************************************************************************)

\* Variant: the negation of the approval flag is lost, so the body is never entered.
LoopCond_ApprovalInverted(approved, count) ==
    approved /\ count < max_navigation_retries

\* Variant: the while test looks at the counter only.
LoopCond_IgnoresApproval(approved, count) == count < max_navigation_retries

\* while (not navigation_approved and navigation_retry_count < max_navigation_retries)
LoopCond(approved, count) == ~approved /\ count < max_navigation_retries

\* Variant: the increment is forgotten.
IncrementCount_Skipped(count) == count

\* Variant: the counter is advanced twice per iteration.
IncrementCount_Twice(count) == count + 2

\* navigation_retry_count += 1
IncrementCount(count) == count + 1

\* verification_result and hasattr(verification_result, "pydantic")
\*     and verification_result.pydantic
HasPydantic(vr) == vr.shape = "structured"

\* Variant: an unclear verification format defaults to another attempt.
ParseDecision_DefaultRetry(vr) ==
    IF HasPydantic(vr) THEN vr.final_decision ELSE "RETRY"

\* The decision the orchestrator acts on.
ParseDecision(vr) ==
    IF HasPydantic(vr) THEN vr.final_decision ELSE "PROCEED"

\* Variant: the final else branch (forced acceptance) does not approve.
Approves_NoForcedAcceptance(decision, count) ==
    IF decision = "PROCEED" THEN TRUE
    ELSE IF decision = "ACCEPTABLE_WITH_MAX_ATTEMPTS" THEN TRUE
    ELSE FALSE

\* Variant: the retry branch compares with <= instead of <.
Approves_OffByOne(decision, count) ==
    IF decision = "PROCEED" THEN TRUE
    ELSE IF decision = "ACCEPTABLE_WITH_MAX_ATTEMPTS" THEN TRUE
    ELSE IF decision = "RETRY" /\ count <= max_navigation_retries THEN FALSE
    ELSE TRUE

\* Variant: ACCEPTABLE_WITH_MAX_ATTEMPTS is handled like RETRY.
Approves_AcceptableNotTerminal(decision, count) ==
    IF decision = "PROCEED" THEN TRUE
    ELSE IF decision \in {"RETRY", "ACCEPTABLE_WITH_MAX_ATTEMPTS"}
            /\ count < max_navigation_retries THEN FALSE
    ELSE TRUE

\* The if/elif/else chain on the decision: TRUE when the branch taken sets
\* navigation_approved = True, FALSE when it is the retry branch.
Approves(decision, count) ==
    IF decision = "PROCEED" THEN TRUE
    ELSE IF decision = "ACCEPTABLE_WITH_MAX_ATTEMPTS" THEN TRUE
    ELSE IF decision = "RETRY" /\ count < max_navigation_retries THEN FALSE
    ELSE TRUE

\* The retry branch binds the local retry_guidance when a structured verdict exists.
BindGuidance(vr, old) ==
    IF HasPydantic(vr) THEN <<Item("retry_guidance", vr.retry_guidance)>> ELSE old

\* Variant: a bound retry_guidance is added to the mapping given to the next attempt.
NavigationKickoffArg_WithGuidance(inp, guidance) ==
    IF guidance = <<>> THEN inp
    ELSE [k \in DOMAIN inp \cup {"retry_guidance"} |->
             IF k \in DOMAIN inp THEN inp[k] ELSE guidance[1]]

\* navigation_crew.kickoff(inputs=inputs)
NavigationKickoffArg(inp, guidance) == inp

\* verification_crew.kickoff(inputs=inputs)
VerificationKickoffArg(inp, nav) == inp

\* final_crew.kickoff(inputs=inputs)
FinalKickoffArg(inp, nav, vr, count) == inp

\* Variant: a RETRY verdict accepted at the limit is reported as
\* ACCEPTABLE_WITH_MAX_ATTEMPTS.
ResultDict_RewritesForcedAcceptance(research, nav, vr, count, final) ==
    [persona_research |-> research, navigation_result |-> nav,
     verification_result |->
         IF vr.final_decision = "RETRY"
         THEN [vr EXCEPT !.final_decision = "ACCEPTABLE_WITH_MAX_ATTEMPTS"]
         ELSE vr,
     navigation_retry_count |-> count, final_result |-> final]

\* The dictionary returned by kickoff_with_verification.
ResultDict(research, nav, vr, count, final) ==
    [persona_research |-> research, navigation_result |-> nav,
     verification_result |-> vr, navigation_retry_count |-> count,
     final_result |-> final]

(***************************************************************************)
(* Initial state of a session: nothing constructed, the caller has chosen  *)
(* an entry point and an inputs mapping.                                   *)
(***************************************************************************)

\* Nothing constructed, no local bound, nothing called yet.
SessionFresh ==
    /\ stagehand_tool = "unset"
    /\ browser = "none"
    /\ exc = "none"
    /\ running = {}
    /\ navigation_retry_count = 0
    /\ navigation_approved = FALSE
    /\ navigation_result = NoneItem
    /\ verification_result = NoVerdict
    /\ retry_guidance = <<>>
    /\ persona_research_result = NoneItem
    /\ final_result = NoneItem
    /\ returned = <<>>
    /\ researchCalls = <<>>
    /\ navCalls = <<>>
    /\ verifyCalls = <<>>
    /\ finalCalls = <<>>
    /\ verdicts = <<>>
    /\ decisions = <<>>
    /\ printed = <<>>
    /\ crew_tasks_run = <<>>
    /\ cleanup_calls = 0
    /\ close_calls = 0
    /\ open_calls = 0
    /\ cleanup_reports = <<>>

SessionStart ==
    /\ pc = "start"
    /\ entry \in {"run", "kickoff_with_verification"}
    /\ inputs \in EntryInputs(entry)
    /\ SessionFresh

\* No session is being run in this process.
SessionIdle ==
    /\ pc = "idle"
    /\ entry = "none"
    /\ inputs = InputsOver(AllKeys)
    /\ SessionFresh

validationVars == <<config, v_pc, v_error>>

concurrencyVars == <<s_pc, s_entry, s_persona, s_tasks, writers>>

loadVars == <<l_pc, l_suffix, l_file, l_outcome>>

clickVars == <<c_pc, c_selector, c_next, c_tried, c_clicks, c_result>>

\* What a single session's steps leave alone.
outsideSession == <<validationVars, concurrencyVars, loadVars, clickVars>>

kwvLocals == <<navigation_retry_count, navigation_approved, navigation_result,
               verification_result, retry_guidance, persona_research_result,
               final_result, returned>>

histories == <<researchCalls, navCalls, verifyCalls, finalCalls, verdicts, decisions,
               printed>>

resource == <<stagehand_tool, browser, cleanup_calls, close_calls, open_calls,
              cleanup_reports>>

sessionVars == <<pc, entry, inputs, exc, running, resource, kwvLocals, histories,
                 crew_tasks_run>>

(***************************************************************************)
(* ProductCritiquer.__init__                                               *)
(***************************************************************************)

\* Variant: run() drives the session through kickoff_with_verification.
AfterConstruct_ThroughVerification(e) == "kwv_enter"

\* run() calls crew().kickoff; the other entry point is kickoff_with_verification.
AfterConstruct(e) == IF e = "run" THEN "run_kickoff" ELSE "kwv_enter"

\* The constructor builds the StagehandTool (the session's browser tool).
Construct ==
    /\ pc = "start"
    /\ stagehand_tool' = "tool"
    /\ browser' = "open"
    /\ open_calls' = open_calls + 1
    /\ pc' = AfterConstruct(entry)
    /\ UNCHANGED <<entry, inputs, exc, running, kwvLocals, histories, crew_tasks_run,
                   cleanup_calls, close_calls, cleanup_reports>>
    /\ UNCHANGED outsideSession

\* The constructor raises (StagehandTool or SerperDevTool cannot be built).
ConstructRaises ==
    /\ pc = "start"
    /\ pc' = "raised"
    /\ exc' = "construct"
    /\ UNCHANGED <<entry, inputs, running, resource, kwvLocals, histories, crew_tasks_run>>
    /\ UNCHANGED outsideSession

(***************************************************************************)
(* ProductCritiquer.kickoff_with_verification                              *)
(*                                                                         *)
(* Each crew kickoff is two steps: the call, which puts the stage in       *)
(* flight, and its return (or its exception), which takes it out again.    *)
(***************************************************************************)

\* Variant: a failing research or interview/report crew is caught and the method
\* carries on with the next statement.
Propagate_Swallowed(stage) ==
    IF stage = "research" THEN "loop"
    ELSE IF stage = "final" THEN "return"
    ELSE "raised"

\* The method has no try/except: an exception raised by a crew's kickoff leaves
\* kickoff_with_verification at once and reaches the caller.
Propagate(stage) == "raised"

\* Variant: the crew is started in the background (as kickoff_async would) and the
\* method goes on with its next statement.
Kickoff_NotAwaited(inside, after) == after

\* crew.kickoff(inputs=inputs) is a blocking call: the method stays inside it
\* (position `inside`) until the crew has returned or raised, and only then goes
\* on to the statement after it (position `after`).
Kickoff(inside, after) == inside

\* The lines printed by one iteration once the verification has returned: the
\* decision, then the line of the branch taken.
DecisionLines(vr, decision, count) ==
    <<Line("Verification decision: {decision}", decision, 0)>>
    \o (IF decision = "PROCEED"
        THEN <<Line("Navigation approved, proceeding to interview...", "", 0)>>
        ELSE IF decision = "ACCEPTABLE_WITH_MAX_ATTEMPTS"
        THEN <<Line("Navigation acceptable despite max attempts reached, proceeding...",
                    "", 0)>>
        ELSE IF decision = "RETRY" /\ count < max_navigation_retries
        THEN <<Line("Navigation needs retry. Attempt {n} will begin...", "", count + 1)>>
             \o (IF HasPydantic(vr)
                 THEN <<Line("Retry guidance: {retry_guidance}", "", vr.retry_guidance)>>
                 ELSE <<>>)
        ELSE <<Line("Maximum navigation retries ({n}) reached. Proceeding with current results...",
                    "", max_navigation_retries)>>)

\* max_navigation_retries = 3; navigation_retry_count = 0
KwvEnter ==
    /\ pc = "kwv_enter"
    /\ navigation_retry_count' = 0
    /\ pc' = "research"
    /\ UNCHANGED <<entry, inputs, resource, exc, running, navigation_approved,
                   navigation_result, verification_result, retry_guidance,
                   persona_research_result, final_result, returned, histories,
                   crew_tasks_run>>
    /\ UNCHANGED outsideSession

\* Step 1: persona_research_crew.kickoff(inputs=inputs) is called.
ResearchCall ==
    /\ pc = "research"
    /\ researchCalls' = Append(researchCalls, inputs)
    /\ running' = running \cup {"research"}
    /\ pc' = Kickoff("researching", "loop")
    /\ UNCHANGED <<entry, inputs, resource, exc, kwvLocals, navCalls, verifyCalls,
                   finalCalls, verdicts, decisions, printed, crew_tasks_run>>
    /\ UNCHANGED outsideSession

\* The research crew returns; then the loop's locals are initialised.
ResearchReturns ==
    /\ pc = "researching"
    /\ running' = running \ {"research"}
    /\ persona_research_result' = Item("persona_research", 1)
    /\ navigation_approved' = FALSE
    /\ navigation_result' = NoneItem
    /\ verification_result' = NoVerdict
    /\ pc' = "loop"
    /\ UNCHANGED <<entry, inputs, resource, exc, navigation_retry_count, retry_guidance,
                   final_result, returned, histories, crew_tasks_run>>
    /\ UNCHANGED outsideSession

ResearchRaises ==
    /\ pc = "researching"
    /\ running' = running \ {"research"}
    /\ pc' = Propagate("research")
    /\ exc' = "research"
    /\ UNCHANGED <<entry, inputs, resource, kwvLocals, histories, crew_tasks_run>>
    /\ UNCHANGED outsideSession

\* The while test; entering the body increments the counter.
LoopEnter ==
    /\ pc = "loop"
    /\ LoopCond(navigation_approved, navigation_retry_count)
    /\ navigation_retry_count' = IncrementCount(navigation_retry_count)
    /\ pc' = "navigate"
    /\ UNCHANGED <<entry, inputs, resource, exc, running, navigation_approved,
                   navigation_result, verification_result, retry_guidance,
                   persona_research_result, final_result, returned, histories,
                   crew_tasks_run>>
    /\ UNCHANGED outsideSession

LoopExit ==
    /\ pc = "loop"
    /\ ~LoopCond(navigation_approved, navigation_retry_count)
    /\ pc' = "final"
    /\ UNCHANGED <<entry, inputs, resource, exc, running, kwvLocals, histories,
                   crew_tasks_run>>
    /\ UNCHANGED outsideSession

\* Run navigation task: navigation_crew.kickoff(inputs=inputs) is called.
NavigateCall ==
    /\ pc = "navigate"
    /\ navCalls' = Append(navCalls, NavigationKickoffArg(inputs, retry_guidance))
    /\ running' = running \cup {"navigation"}
    /\ pc' = Kickoff("navigating", "verify")
    /\ UNCHANGED <<entry, inputs, resource, exc, kwvLocals, researchCalls, verifyCalls,
                   finalCalls, verdicts, decisions, printed, crew_tasks_run>>
    /\ UNCHANGED outsideSession

\* The navigation crew returns: the attempt's result is identified by the attempt
\* number and reports on every testing instruction; whatever it reports is bound.
NavigateReturns ==
    /\ pc = "navigating"
    /\ running' = running \ {"navigation"}
    /\ \E irs \in TestingInstructionResultLists :
          navigation_result' = NavigationResult(navigation_retry_count, irs)
    /\ pc' = "verify"
    /\ UNCHANGED <<entry, inputs, resource, exc, navigation_retry_count,
                   navigation_approved, verification_result, retry_guidance,
                   persona_research_result, final_result, returned, histories,
                   crew_tasks_run>>
    /\ UNCHANGED outsideSession

NavigateRaises ==
    /\ pc = "navigating"
    /\ running' = running \ {"navigation"}
    /\ pc' = Propagate("navigation")
    /\ exc' = "navigation"
    /\ UNCHANGED <<entry, inputs, resource, kwvLocals, histories, crew_tasks_run>>
    /\ UNCHANGED outsideSession

\* Run verification task: verification_crew.kickoff(inputs=inputs) is called.
VerifyCall ==
    /\ pc = "verify"
    /\ verifyCalls' = Append(verifyCalls, VerificationKickoffArg(inputs, navigation_result))
    /\ running' = running \cup {"verification"}
    /\ pc' = Kickoff("verifying", "decide")
    /\ UNCHANGED <<entry, inputs, resource, exc, kwvLocals, researchCalls, navCalls,
                   finalCalls, verdicts, decisions, printed, crew_tasks_run>>
    /\ UNCHANGED outsideSession

\* The verification crew returns: the verifier's answer is arbitrary.
VerifyReturns ==
    /\ pc = "verifying"
    /\ running' = running \ {"verification"}
    /\ \E vr \in VerificationResults(navigation_retry_count) :
          /\ verification_result' = vr
          /\ verdicts' = Append(verdicts, vr)
    /\ pc' = "decide"
    /\ UNCHANGED <<entry, inputs, resource, exc, navigation_retry_count,
                   navigation_approved, navigation_result, retry_guidance,
                   persona_research_result, final_result, returned, researchCalls,
                   navCalls, verifyCalls, finalCalls, decisions, printed, crew_tasks_run>>
    /\ UNCHANGED outsideSession

VerifyRaises ==
    /\ pc = "verifying"
    /\ running' = running \ {"verification"}
    /\ pc' = Propagate("verification")
    /\ exc' = "verification"
    /\ UNCHANGED <<entry, inputs, resource, kwvLocals, histories, crew_tasks_run>>
    /\ UNCHANGED outsideSession

\* Parse the decision, print it, and take the if/elif/else branch.
Decide ==
    /\ pc = "decide"
    /\ LET decision == ParseDecision(verification_result)
           approve == Approves(decision, navigation_retry_count)
       IN  /\ decisions' = Append(decisions, decision)
           /\ printed' = Append(printed, DecisionLines(verification_result, decision,
                                                       navigation_retry_count))
           /\ navigation_approved' = (IF approve THEN TRUE ELSE navigation_approved)
           /\ retry_guidance' = IF approve THEN retry_guidance
                                ELSE BindGuidance(verification_result, retry_guidance)
    /\ pc' = "loop"
    /\ UNCHANGED <<entry, inputs, resource, exc, running, navigation_retry_count,
                   navigation_result, verification_result, persona_research_result,
                   final_result, returned, researchCalls, navCalls, verifyCalls,
                   finalCalls, verdicts, crew_tasks_run>>
    /\ UNCHANGED outsideSession

\* Step 3: interview simulation and final report, one crew, one kickoff.
FinalCall ==
    /\ pc = "final"
    /\ finalCalls' = Append(finalCalls,
                            FinalKickoffArg(inputs, navigation_result,
                                            verification_result, navigation_retry_count))
    /\ running' = running \cup {"final"}
    /\ pc' = Kickoff("finishing", "return")
    /\ UNCHANGED <<entry, inputs, resource, exc, kwvLocals, researchCalls, navCalls,
                   verifyCalls, verdicts, decisions, printed, crew_tasks_run>>
    /\ UNCHANGED outsideSession

FinalReturns ==
    /\ pc = "finishing"
    /\ running' = running \ {"final"}
    /\ final_result' = Item("final_result", 1)
    /\ pc' = "return"
    /\ UNCHANGED <<entry, inputs, resource, exc, navigation_retry_count,
                   navigation_approved, navigation_result, verification_result,
                   retry_guidance, persona_research_result, returned, histories,
                   crew_tasks_run>>
    /\ UNCHANGED outsideSession

FinalRaises ==
    /\ pc = "finishing"
    /\ running' = running \ {"final"}
    /\ pc' = Propagate("final")
    /\ exc' = "final"
    /\ UNCHANGED <<entry, inputs, resource, kwvLocals, histories, crew_tasks_run>>
    /\ UNCHANGED outsideSession

\* Return comprehensive results.
Return ==
    /\ pc = "return"
    /\ returned' = <<ResultDict(persona_research_result, navigation_result,
                                verification_result, navigation_retry_count,
                                final_result)>>
    /\ pc' = "returned"
    /\ UNCHANGED <<entry, inputs, resource, exc, running, navigation_retry_count,
                   navigation_approved, navigation_result, verification_result,
                   retry_guidance, persona_research_result, final_result, histories,
                   crew_tasks_run>>
    /\ UNCHANGED outsideSession

(***************************************************************************)
(* ProductCritiquer.cleanup and run()                                      *)
(***************************************************************************)

\* The tasks of the sequential crew, in the order the @task methods declare them.
CrewTasks == <<"persona_research_task", "persona_navigation_task",
               "navigation_verification_task", "interview_simulation_task",
               "final_report_task">>

\* What a task of the sequential crew leaves behind for the session to see: the
\* verification task's output is a verdict, as arbitrary as in the loop.
TaskOutputs(task) ==
    IF task = "navigation_verification_task"
    THEN {<<vr>> : vr \in VerificationResults(1)}
    ELSE {<<>>}

\* hasattr(self, 'stagehand_tool') and self.stagehand_tool is not None
CleanupCloses(tool) == tool = "tool"

\* What cleanup() hands back or logs about its own outcome: it has no return
\* statement and no print, and its except branch is `pass`.
CleanupReport(close_failed) == <<>>

\* result = productCritquer.crew().kickoff(inputs=inputs): the next task of the
\* sequential crew runs; after the last one kickoff returns.
RunCrewTask ==
    /\ pc = "run_kickoff"
    /\ Len(crew_tasks_run) < Len(CrewTasks)
    /\ crew_tasks_run' = Append(crew_tasks_run, CrewTasks[Len(crew_tasks_run) + 1])
    /\ \E out \in TaskOutputs(CrewTasks[Len(crew_tasks_run) + 1]) :
          verdicts' = verdicts \o out
    /\ pc' = "run_kickoff"
    /\ UNCHANGED <<entry, inputs, resource, exc, running, kwvLocals, researchCalls,
                   navCalls, verifyCalls, finalCalls, decisions, printed>>
    /\ UNCHANGED outsideSession

RunCrewTaskRaises ==
    /\ pc = "run_kickoff"
    /\ Len(crew_tasks_run) < Len(CrewTasks)
    /\ crew_tasks_run' = Append(crew_tasks_run, CrewTasks[Len(crew_tasks_run) + 1])
    /\ exc' = CrewTasks[Len(crew_tasks_run) + 1]
    /\ pc' = "run_finally"
    /\ UNCHANGED <<entry, inputs, resource, running, kwvLocals, histories>>
    /\ UNCHANGED outsideSession

RunKickoffReturns ==
    /\ pc = "run_kickoff"
    /\ Len(crew_tasks_run) = Len(CrewTasks)
    /\ pc' = "run_finally"
    /\ UNCHANGED <<entry, inputs, resource, exc, running, kwvLocals, histories,
                   crew_tasks_run>>
    /\ UNCHANGED outsideSession

AfterFinally(e) == IF e = "none" THEN "run_print" ELSE "raised"

\* finally: productCritquer.cleanup(), close() succeeding.
RunCleanupCloses ==
    /\ pc = "run_finally"
    /\ CleanupCloses(stagehand_tool)
    /\ cleanup_calls' = cleanup_calls + 1
    /\ close_calls' = close_calls + 1
    /\ browser' = "closed"
    /\ stagehand_tool' = "None"
    /\ cleanup_reports' = cleanup_reports \o CleanupReport(FALSE)
    /\ pc' = AfterFinally(exc)
    /\ UNCHANGED <<entry, inputs, exc, running, kwvLocals, histories, crew_tasks_run,
                   open_calls>>
    /\ UNCHANGED outsideSession

\* finally: productCritquer.cleanup(), close() raising: the exception is swallowed,
\* the attribute keeps the tool, and the browser session is left in whatever state
\* the failed close produced.
RunCleanupCloseRaises ==
    /\ pc = "run_finally"
    /\ CleanupCloses(stagehand_tool)
    /\ cleanup_calls' = cleanup_calls + 1
    /\ close_calls' = close_calls + 1
    /\ browser' \in {"open", "closed"}
    /\ cleanup_reports' = cleanup_reports \o CleanupReport(TRUE)
    /\ pc' = AfterFinally(exc)
    /\ UNCHANGED <<entry, inputs, stagehand_tool, exc, running, kwvLocals, histories,
                   crew_tasks_run, open_calls>>
    /\ UNCHANGED outsideSession

\* print(result.raw)
RunPrint ==
    /\ pc = "run_print"
    /\ pc' = "run_done"
    /\ UNCHANGED <<entry, inputs, resource, exc, running, kwvLocals, histories,
                   crew_tasks_run>>
    /\ UNCHANGED outsideSession

(***************************************************************************)
(* InputLoader.validate_config                                             *)
(*                                                                         *)
(* A Python value is modelled by what validate_config can observe of it:   *)
(* its type and its content.  A key that is not in a mapping holds Absent. *)
(***************************************************************************)

\* Largest number of entries of a testing_instructions list.
MaxInstructions == 1

PyValue(type, val) == [type |-> type, val |-> val]

Absent == PyValue("absent", "")

\* bool(v): empty strings, zero and None are falsy.
Truthy(v) ==
    IF v.type = "str" THEN v.val # ""
    ELSE IF v.type = "int" THEN v.val # "0"
    ELSE IF v.type = "NoneType" THEN FALSE
    ELSE TRUE

\* isinstance(v, str)
IsStr(v) == v.type = "str"

\* required_fields = ['app_url', 'persona_type']
required_fields == <<"app_url", "persona_type">>

\* Variant: the list loses its last name.
required_instruction_fields_Short ==
    <<"task", "priority", "max_attempts", "success_criteria">>

\* required_instruction_fields
required_instruction_fields ==
    <<"task", "priority", "max_attempts", "success_criteria", "fallback_action">>

\* The ValueError raised, identified by its message, field and instruction index.
Error(kind, field, index) == [kind |-> kind, field |-> field, index |-> index]

NoError == Error("none", "", 0)

\* Variant: only the type of a required field is checked, not its emptiness.
RequiredFieldError_TypeOnly(cfg, field) ==
    IF cfg[field].type = "absent" THEN Error("missing_field", field, 0)
    ELSE IF ~IsStr(cfg[field]) THEN Error("not_nonempty_string", field, 0)
    ELSE NoError

\* The body of the loop over required_fields, for one field.
RequiredFieldError(cfg, field) ==
    IF cfg[field].type = "absent" THEN Error("missing_field", field, 0)
    ELSE IF ~Truthy(cfg[field]) \/ ~IsStr(cfg[field])
         THEN Error("not_nonempty_string", field, 0)
    ELSE NoError

\* The first element of the sequence of errors errs that is an error.
FirstError(errs) ==
    LET S == {n \in 1..Len(errs) : errs[n] # NoError}
    IN  IF S = {} THEN NoError ELSE errs[CHOOSE n \in S : \A m \in S : n <= m]

\* The check of testing instruction number i (0-based, as enumerate counts).
InstructionError(instruction, i) ==
    IF instruction.type # "dict" THEN Error("instruction_not_dict", "", i)
    ELSE FirstError([n \in 1..Len(required_instruction_fields) |->
                       IF instruction.fields[required_instruction_fields[n]].type = "absent"
                       THEN Error("missing_instruction_field",
                                  required_instruction_fields[n], i)
                       ELSE NoError])

\* The check of testing_instructions, when the key is present.
InstructionsError(ti) ==
    IF ti.type = "absent" THEN NoError
    ELSE IF ti.type # "list" THEN Error("instructions_not_list", "testing_instructions", 0)
    ELSE FirstError([n \in 1..Len(ti.items) |-> InstructionError(ti.items[n], n - 1)])

\* validate_config(config): the error of the first check that fails.
ValidateConfig(cfg) ==
    FirstError([n \in 1..Len(required_fields) |-> RequiredFieldError(cfg, required_fields[n])]
               \o <<InstructionsError(cfg.testing_instructions)>>)

\* Values a configuration may hold under app_url or persona_type.
TopLevelValues ==
    {Absent, PyValue("str", "text"), PyValue("str", ""), PyValue("NoneType", ""),
     PyValue("int", "42")}

\* Values a testing instruction may hold under each of its keys.
InstructionValues(field) ==
    IF field = "priority"
    THEN {Absent, PyValue("str", "high"), PyValue("str", "urgent")}
    ELSE IF field = "max_attempts"
    THEN {Absent, PyValue("int", "3"), PyValue("int", "0")}
    ELSE {Absent, PyValue("str", "text")}

InstructionKeys ==
    {"task", "priority", "max_attempts", "success_criteria", "fallback_action"}

\* The entries a testing_instructions list may hold: dictionaries, and a string.
Instructions ==
    {[type |-> "dict", fields |-> f] :
        f \in {g \in [InstructionKeys -> UNION {InstructionValues(k) : k \in InstructionKeys}] :
                  \A k \in InstructionKeys : g[k] \in InstructionValues(k)}}
    \cup {[type |-> "str", fields |-> [k \in InstructionKeys |-> Absent]]}

SeqsUpTo(S, n) == UNION {[1..k -> S] : k \in 0..n}

\* What a configuration may hold under testing_instructions.
InstructionsValues ==
    {[type |-> "absent", items |-> <<>>], [type |-> "str", items |-> <<>>]}
    \cup {[type |-> "list", items |-> l] : l \in SeqsUpTo(Instructions, MaxInstructions)}

Configs ==
    [app_url : TopLevelValues, persona_type : TopLevelValues,
     testing_instructions : InstructionsValues]

\* The configuration main.py's literal inputs amount to.
DefaultConfig ==
    [app_url |-> PyValue("str", "text"), persona_type |-> PyValue("str", "text"),
     testing_instructions |-> [type |-> "absent", items |-> <<>>]]

\* No validation is in progress: a session never calls validate_config.
ValidationIdle ==
    /\ config = DefaultConfig
    /\ v_pc = "idle"
    /\ v_error = NoError

\* A caller is about to validate some configuration.
ValidationStart ==
    /\ config \in Configs
    /\ v_pc = "called"
    /\ v_error = NoError

\* validate_config(config) returns None: every check passed.
ValidateReturns ==
    /\ v_pc = "called"
    /\ ValidateConfig(config) = NoError
    /\ v_pc' = "returned"
    /\ UNCHANGED <<config, v_error, sessionVars, concurrencyVars, loadVars, clickVars>>

\* validate_config(config) raises the ValueError of the first failing check.
ValidateRaises ==
    /\ v_pc = "called"
    /\ ValidateConfig(config) # NoError
    /\ v_error' = ValidateConfig(config)
    /\ v_pc' = "raised"
    /\ UNCHANGED <<config, sessionVars, concurrencyVars, loadVars, clickVars>>

(***************************************************************************)
(* Sessions side by side: separate ProductCritiquer instances in one       *)
(* working directory.  Each session runs the tasks of CrewTasks in order   *)
(* (the retry loop repeats the navigation and verification tasks, which    *)
(* write no file); what is tracked is which session writes which file.     *)
(***************************************************************************)

\* Number of sessions running side by side.
NumSessions == 2

\* Number of distinct persona_type values among the sessions' inputs.
NumPersonas == 2

Sessions == 1..NumSessions

Personas == 1..NumPersonas

\* output_log_file="./logs/crew_execution.log"
LogPath == [file |-> "./logs/crew_execution.log", persona_type |-> 0]

\* output_file="output/product_critique_report_{persona_type}.md", interpolated
\* with the session's inputs.
ReportPath(persona) ==
    [file |-> "output/product_critique_report_{persona_type}.md", persona_type |-> persona]

Paths == {LogPath} \cup {ReportPath(p) : p \in Personas}

\* The files a task's execution writes: the crew built by crew() logs every task
\* to its output_log_file (the crews built inside kickoff_with_verification have
\* none), and final_report_task writes its output_file.
TaskWrites(e, task, persona) ==
    (IF e = "run" THEN {LogPath} ELSE {})
    \cup (IF task = "final_report_task" THEN {ReportPath(persona)} ELSE {})

ConcurrencyIdle ==
    /\ s_pc = [i \in Sessions |-> "idle"]
    /\ s_entry = [i \in Sessions |-> "none"]
    /\ s_persona = [i \in Sessions |-> 1]
    /\ s_tasks = [i \in Sessions |-> 0]
    /\ writers = [p \in Paths |-> {}]

ConcurrencyStart ==
    /\ s_pc = [i \in Sessions |-> "start"]
    /\ s_entry \in [Sessions -> {"run", "kickoff_with_verification"}]
    /\ s_persona \in [Sessions -> Personas]
    /\ s_tasks = [i \in Sessions |-> 0]
    /\ writers = [p \in Paths |-> {}]

\* ProductCritiquer(): session i builds its own tools.
SessionConstruct(i) ==
    /\ s_pc[i] = "start"
    /\ s_pc' = [s_pc EXCEPT ![i] = "kickoff"]
    /\ UNCHANGED <<s_entry, s_persona, s_tasks, writers, sessionVars, validationVars,
                   loadVars, clickVars>>

\* Session i executes its next task, writing the task's files.
SessionRunsTask(i) ==
    /\ s_pc[i] = "kickoff"
    /\ s_tasks[i] < Len(CrewTasks)
    /\ s_tasks' = [s_tasks EXCEPT ![i] = @ + 1]
    /\ writers' = [p \in Paths |->
                     IF p \in TaskWrites(s_entry[i], CrewTasks[s_tasks[i] + 1], s_persona[i])
                     THEN writers[p] \cup {i} ELSE writers[p]]
    /\ UNCHANGED <<s_pc, s_entry, s_persona, sessionVars, validationVars,
                   loadVars, clickVars>>

\* Session i's next task raises: the session ends without the task's output.
SessionTaskRaises(i) ==
    /\ s_pc[i] = "kickoff"
    /\ s_tasks[i] < Len(CrewTasks)
    /\ s_pc' = [s_pc EXCEPT ![i] = "raised"]
    /\ UNCHANGED <<s_entry, s_persona, s_tasks, writers, sessionVars, validationVars,
                   loadVars, clickVars>>

\* Session i has executed every task.
SessionEnds(i) ==
    /\ s_pc[i] = "kickoff"
    /\ s_tasks[i] = Len(CrewTasks)
    /\ s_pc' = [s_pc EXCEPT ![i] = "done"]
    /\ UNCHANGED <<s_entry, s_persona, s_tasks, writers, sessionVars, validationVars,
                   loadVars, clickVars>>

(***************************************************************************)
(* InputLoader.load_and_validate                                           *)
(*                                                                         *)
(* The file is modelled by what opening and parsing it does; an exception  *)
(* by its class, the statement that raised it, and (for validate_config)   *)
(* the error it reports.                                                   *)
(***************************************************************************)

Exception(type, origin, error) == [type |-> type, origin |-> origin, error |-> error]

NoException == Exception("none", "", NoError)

\* The classes an exception of class `type` is an instance of.
Bases(type) ==
    IF type = "UnicodeDecodeError" THEN {"UnicodeDecodeError", "ValueError", "Exception"}
    ELSE IF type = "FileNotFoundError" THEN {"FileNotFoundError", "OSError", "Exception"}
    ELSE IF type = "PermissionError" THEN {"PermissionError", "OSError", "Exception"}
    ELSE IF type = "none" THEN {}
    ELSE {type, "Exception"}

\* isinstance(e, cls), and what an `except cls` clause matches.
IsInstance(e, cls) == cls \in Bases(e.type)

\* The suffixes of the paths tried.
Suffixes == {".yaml", ".yml", ".YAML", ".json"}

\* path.suffix.lower()
Lower(suffix) == IF suffix = ".YAML" THEN ".yaml" ELSE suffix

\* path.suffix.lower() in ['.yaml', '.yml']
SupportedSuffix(suffix) == Lower(suffix) \in {".yaml", ".yml"}

\* A parsed YAML document: a mapping (its content is `config`), a string, an
\* integer, or None for an empty document.
Document(type, cfg) == [type |-> type, config |-> cfg]

NoneDocument == Document("NoneType", DefaultConfig)

\* An instruction holding every key.
CompleteInstruction ==
    [type |-> "dict",
     fields |-> [k \in InstructionKeys |->
                    IF k = "max_attempts" THEN PyValue("int", "3")
                    ELSE IF k = "priority" THEN PyValue("str", "high")
                    ELSE PyValue("str", "text")]]

\* The mappings a loaded file may hold.
LoadedConfigs ==
    [app_url : TopLevelValues, persona_type : TopLevelValues,
     testing_instructions :
        {[type |-> "absent", items |-> <<>>], [type |-> "str", items |-> <<>>],
         [type |-> "list", items |-> <<>>],
         [type |-> "list", items |-> <<CompleteInstruction>>],
         [type |-> "list",
          items |-> <<[CompleteInstruction EXCEPT !.fields["fallback_action"] = Absent]>>]}]

Documents ==
    {NoneDocument, Document("str", DefaultConfig), Document("int", DefaultConfig)}
    \cup {Document("dict", c) : c \in LoadedConfigs}

\* A file: missing, not readable, not decodable as text, not parseable as YAML,
\* or holding a document.
File(state, doc) == [state |-> state, doc |-> doc]

Files ==
    {File(s, NoneDocument) : s \in {"missing", "unreadable", "undecodable", "syntax_error"}}
    \cup {File("document", d) : d \in Documents}

\* What a call ends with: the exception it raises (NoException if it returns), the
\* value it returns, whether the file was opened, whether validate_config was called.
Outcome(raised, value, opened, validated) ==
    [raised |-> raised, value |-> value, opened |-> opened, validated |-> validated]

NoOutcome == Outcome(NoException, NoneDocument, FALSE, FALSE)

\* load_from_yaml: open(file_path, "r") and yaml.safe_load(f).
LoadFromYaml(file) ==
    IF file.state = "missing"
    THEN Outcome(Exception("FileNotFoundError", "open", NoError), NoneDocument, TRUE, FALSE)
    ELSE IF file.state = "unreadable"
    THEN Outcome(Exception("PermissionError", "open", NoError), NoneDocument, TRUE, FALSE)
    ELSE IF file.state = "undecodable"
    THEN Outcome(Exception("UnicodeDecodeError", "safe_load", NoError), NoneDocument,
                 TRUE, FALSE)
    ELSE IF file.state = "syntax_error"
    THEN Outcome(Exception("YAMLError", "safe_load", NoError), NoneDocument, TRUE, FALSE)
    ELSE Outcome(NoException, file.doc, TRUE, FALSE)

\* validate_config applied to whatever was parsed: a string has no key app_url
\* (`'app_url' not in config` holds), an integer does not support `in`.
ValidateDocument(doc) ==
    IF doc.type = "dict"
    THEN IF ValidateConfig(doc.config) = NoError THEN NoException
         ELSE Exception("ValueError", "validate_config", ValidateConfig(doc.config))
    ELSE IF doc.type = "str"
    THEN Exception("ValueError", "validate_config", Error("missing_field", "app_url", 0))
    ELSE Exception("TypeError", "validate_config", NoError)

\* The body of the try block.
TryBody(file) ==
    LET loaded == LoadFromYaml(file)
    IN  IF loaded.raised # NoException THEN loaded
        ELSE IF loaded.value.type = "NoneType"
        THEN Outcome(Exception("ValueError", "empty_or_invalid", NoError), NoneDocument,
                     TRUE, FALSE)
        ELSE Outcome(ValidateDocument(loaded.value),
                     IF ValidateDocument(loaded.value) = NoException
                     THEN loaded.value ELSE NoneDocument,
                     TRUE, TRUE)

\* The except clauses, in order: the exception that leaves load_and_validate when
\* the try block raised e.
Handle(e) ==
    IF IsInstance(e, "YAMLError")
    THEN Exception("ValueError", "invalid_yaml_syntax", NoError)
    ELSE IF IsInstance(e, "FileNotFoundError")
    THEN Exception("FileNotFoundError", "configuration_file_not_found", NoError)
    ELSE IF IsInstance(e, "ValueError") THEN e
    ELSE Exception("RuntimeError", "error_loading_configuration", NoError)

\* load_and_validate(file_path)
LoadAndValidate(suffix, file) ==
    IF ~SupportedSuffix(suffix)
    THEN Outcome(Exception("ValueError", "only_yaml_supported", NoError), NoneDocument,
                 FALSE, FALSE)
    ELSE [TryBody(file) EXCEPT !.raised = IF @ = NoException THEN @ ELSE Handle(@)]

\* load_and_validate is not being called.
LoadIdle ==
    /\ l_pc = "idle"
    /\ l_suffix = ".yaml"
    /\ l_file = File("missing", NoneDocument)
    /\ l_outcome = NoOutcome

\* A caller is about to load some path.
LoadStart ==
    /\ l_pc = "called"
    /\ l_suffix \in Suffixes
    /\ l_file \in Files
    /\ l_outcome = NoOutcome

\* load_and_validate(file_path) returns the configuration.
LoadReturns ==
    /\ l_pc = "called"
    /\ LoadAndValidate(l_suffix, l_file).raised = NoException
    /\ l_outcome' = LoadAndValidate(l_suffix, l_file)
    /\ l_pc' = "returned"
    /\ UNCHANGED <<l_suffix, l_file, sessionVars, validationVars, concurrencyVars, clickVars>>

\* load_and_validate(file_path) raises.
LoadRaises ==
    /\ l_pc = "called"
    /\ LoadAndValidate(l_suffix, l_file).raised # NoException
    /\ l_outcome' = LoadAndValidate(l_suffix, l_file)
    /\ l_pc' = "raised"
    /\ UNCHANGED <<l_suffix, l_file, sessionVars, validationVars, concurrencyVars, clickVars>>

(***************************************************************************)
(* PlaywrightToolsWrapper.get_click_tool.click_element                     *)
(*                                                                         *)
(* A selector is modelled by what the page and the function make of it.    *)
(* Every Playwright call either returns or raises; each strategy's try     *)
(* block ends in one of:                                                   *)
(*   "succeeded"            the click was made and the block returned      *)
(*   "click_raised"         the click call was made and raised             *)
(*   "raised_before_click"  a call before the click raised                 *)
(*   "no_click"             the block ended without clicking or raising    *)
(***************************************************************************)

\* matches:  what page.locator(selector).all() does: "none" (empty list), "some",
\*           or "invalid" (it raises)
\* has_text: ":has-text(" in selector
\* quoted:   the selector matches :has-text\('([^']+)'\)
Selectors ==
    {s \in [matches : {"none", "some", "invalid"}, has_text : BOOLEAN, quoted : BOOLEAN] :
        s.quoted => s.has_text}

\* Variant: the force click is tried before the standard click.
ClickStrategies_ForceFirst ==
    <<"force", "standard", "scroll", "javascript", "coordinate", "text">>

\* The strategies of step 3, in the order the function lists them.
ClickStrategies ==
    <<"standard", "force", "scroll", "javascript", "coordinate", "text">>

\* if ":has-text(" in selector: the sixth block is entered for such selectors only.
Applicable(strategy, sel) == strategy = "text" => sel.has_text

\* How the try block of a strategy can end for a selector.  The JavaScript click
\* hands the selector to document.querySelector inside a quoted string, which
\* accepts no :has-text(...); the coordinate click does nothing when the element
\* has no bounding box; the text click does nothing when the pattern finds no text.
StrategyOutcomes(strategy, sel) ==
    IF strategy = "standard" THEN {"succeeded", "raised_before_click", "click_raised"}
    ELSE IF strategy = "force" THEN {"succeeded", "click_raised"}
    ELSE IF strategy = "scroll" THEN {"succeeded", "raised_before_click", "click_raised"}
    ELSE IF strategy = "javascript"
    THEN IF sel.has_text THEN {"raised_before_click"}
         ELSE {"succeeded", "raised_before_click"}
    ELSE IF strategy = "coordinate"
    THEN {"succeeded", "no_click", "raised_before_click", "click_raised"}
    ELSE IF sel.quoted THEN {"succeeded", "click_raised"}
    ELSE {"no_click"}

\* Whether a block ending this way made a click call.
Clicked(outcome) == outcome \in {"succeeded", "click_raised"}

\* The message returned by the strategy that succeeded.
SuccessMessage(strategy) == [message |-> "Successfully clicked", strategy |-> strategy]

\* The messages returned without a successful click.
FailureMessage(text) == [message |-> text, strategy |-> "none"]

NoMessage == [message |-> "", strategy |-> "none"]

Attempt(strategy, outcome) == [strategy |-> strategy, outcome |-> outcome]

\* The tool is not being called.
ClickIdle ==
    /\ c_pc = "idle"
    /\ c_selector = [matches |-> "none", has_text |-> FALSE, quoted |-> FALSE]
    /\ c_next = 1
    /\ c_tried = <<>>
    /\ c_clicks = <<>>
    /\ c_result = NoMessage

\* The agent calls the tool with some selector.
ClickStart ==
    /\ c_pc = "called"
    /\ c_selector \in Selectors
    /\ c_next = 1
    /\ c_tried = <<>>
    /\ c_clicks = <<>>
    /\ c_result = NoMessage

\* page = self._get_current_page(); current_url = page.url
ClickGetPage ==
    /\ c_pc = "called"
    /\ c_pc' = "validate"
    /\ UNCHANGED <<c_selector, c_next, c_tried, c_clicks, c_result>>
    /\ UNCHANGED <<sessionVars, validationVars, concurrencyVars, loadVars>>

\* _get_current_page raises (the browser cannot be recreated): the outer except
\* clause returns the critical-error message.
ClickCriticalError ==
    /\ c_pc = "called"
    /\ c_result' = FailureMessage("Critical error in click_element")
    /\ c_pc' = "returned"
    /\ UNCHANGED <<c_selector, c_next, c_tried, c_clicks>>
    /\ UNCHANGED <<sessionVars, validationVars, concurrencyVars, loadVars>>

\* STEP 1, no element: if not elements: return "No elements found ..."
ClickNoElements ==
    /\ c_pc = "validate"
    /\ c_selector.matches = "none"
    /\ c_result' = FailureMessage("No elements found with selector")
    /\ c_pc' = "returned"
    /\ UNCHANGED <<c_selector, c_next, c_tried, c_clicks>>
    /\ UNCHANGED <<sessionVars, validationVars, concurrencyVars, loadVars>>

\* STEP 1, page.locator(selector).all() raises: return "Invalid selector ..."
ClickInvalidSelector ==
    /\ c_pc = "validate"
    /\ c_selector.matches = "invalid"
    /\ c_result' = FailureMessage("Invalid selector")
    /\ c_pc' = "returned"
    /\ UNCHANGED <<c_selector, c_next, c_tried, c_clicks>>
    /\ UNCHANGED <<sessionVars, validationVars, concurrencyVars, loadVars>>

\* STEP 1 finds elements; STEP 2 prints the first element's properties (its own
\* try block swallows any failure); STEP 3 begins with the first strategy.
ClickSelectorFound ==
    /\ c_pc = "validate"
    /\ c_selector.matches = "some"
    /\ c_next' = 1
    /\ c_pc' = "strategies"
    /\ UNCHANGED <<c_selector, c_tried, c_clicks, c_result>>
    /\ UNCHANGED <<sessionVars, validationVars, concurrencyVars, loadVars>>

\* The next strategy's block clicks and returns its success message.
ClickStrategySucceeds ==
    /\ c_pc = "strategies"
    /\ c_next <= Len(ClickStrategies)
    /\ Applicable(ClickStrategies[c_next], c_selector)
    /\ "succeeded" \in StrategyOutcomes(ClickStrategies[c_next], c_selector)
    /\ c_tried' = Append(c_tried, Attempt(ClickStrategies[c_next], "succeeded"))
    /\ c_clicks' = Append(c_clicks, ClickStrategies[c_next])
    /\ c_result' = SuccessMessage(ClickStrategies[c_next])
    /\ c_pc' = "returned"
    /\ UNCHANGED <<c_selector, c_next>>
    /\ UNCHANGED <<sessionVars, validationVars, concurrencyVars, loadVars>>

\* The next strategy's block raises or ends without a click: its except clause
\* prints, and the function goes on to the strategy after it.
ClickStrategyFails ==
    /\ c_pc = "strategies"
    /\ c_next <= Len(ClickStrategies)
    /\ Applicable(ClickStrategies[c_next], c_selector)
    /\ \E outcome \in StrategyOutcomes(ClickStrategies[c_next], c_selector) \ {"succeeded"} :
          /\ c_tried' = Append(c_tried, Attempt(ClickStrategies[c_next], outcome))
          /\ c_clicks' = IF Clicked(outcome)
                         THEN Append(c_clicks, ClickStrategies[c_next]) ELSE c_clicks
    /\ c_next' = c_next + 1
    /\ UNCHANGED <<c_pc, c_selector, c_result>>
    /\ UNCHANGED <<sessionVars, validationVars, concurrencyVars, loadVars>>

\* The next strategy is not for this selector: its block is not entered.
ClickStrategyNotApplicable ==
    /\ c_pc = "strategies"
    /\ c_next <= Len(ClickStrategies)
    /\ ~Applicable(ClickStrategies[c_next], c_selector)
    /\ c_next' = c_next + 1
    /\ UNCHANGED <<c_pc, c_selector, c_tried, c_clicks, c_result>>
    /\ UNCHANGED <<sessionVars, validationVars, concurrencyVars, loadVars>>

\* return "All click strategies failed for: ..."
ClickAllFailed ==
    /\ c_pc = "strategies"
    /\ c_next > Len(ClickStrategies)
    /\ c_result' = FailureMessage("All click strategies failed")
    /\ c_pc' = "returned"
    /\ UNCHANGED <<c_selector, c_next, c_tried, c_clicks>>
    /\ UNCHANGED <<sessionVars, validationVars, concurrencyVars, loadVars>>

(***************************************************************************)
(* Specification                                                           *)
(***************************************************************************)

Init == SessionStart /\ ValidationIdle /\ ConcurrencyIdle /\ LoadIdle /\ ClickIdle

Next ==
    \/ Construct
    \/ ConstructRaises
    \/ KwvEnter
    \/ ResearchCall
    \/ ResearchReturns
    \/ ResearchRaises
    \/ LoopEnter
    \/ LoopExit
    \/ NavigateCall
    \/ NavigateReturns
    \/ NavigateRaises
    \/ VerifyCall
    \/ VerifyReturns
    \/ VerifyRaises
    \/ Decide
    \/ FinalCall
    \/ FinalReturns
    \/ FinalRaises
    \/ Return
    \/ RunCrewTask
    \/ RunCrewTaskRaises
    \/ RunKickoffReturns
    \/ RunCleanupCloses
    \/ RunCleanupCloseRaises
    \/ RunPrint

Spec == Init /\ [][Next]_vars

\* Every step of the session is a call that returns or raises: the single thread
\* of control keeps running until the entry point has returned or raised.
FairSpec == Spec /\ WF_vars(Next)

\* validate_config applied to one configuration drawn from Configs.
ValidateInit ==
    SessionIdle /\ ValidationStart /\ ConcurrencyIdle /\ LoadIdle /\ ClickIdle

ValidateNext == ValidateReturns \/ ValidateRaises

ValidateSpec == ValidateInit /\ [][ValidateNext]_vars

\* Sessions interleaved step by step.
ConcurrentInit ==
    SessionIdle /\ ValidationIdle /\ ConcurrencyStart /\ LoadIdle /\ ClickIdle

ConcurrentNext ==
    \/ \E i \in Sessions : SessionConstruct(i)
    \/ \E i \in Sessions : SessionRunsTask(i)
    \/ \E i \in Sessions : SessionTaskRaises(i)
    \/ \E i \in Sessions : SessionEnds(i)

ConcurrentSpec == ConcurrentInit /\ [][ConcurrentNext]_vars

\* load_and_validate applied to one path.
LoadInit == SessionIdle /\ ValidationIdle /\ ConcurrencyIdle /\ LoadStart /\ ClickIdle

LoadNext == LoadReturns \/ LoadRaises

LoadSpec == LoadInit /\ [][LoadNext]_vars

\* One call of the Click Element tool.
ClickInit == SessionIdle /\ ValidationIdle /\ ConcurrencyIdle /\ LoadIdle /\ ClickStart

ClickNext ==
    \/ ClickGetPage
    \/ ClickCriticalError
    \/ ClickNoElements
    \/ ClickInvalidSelector
    \/ ClickSelectorFound
    \/ ClickStrategySucceeds
    \/ ClickStrategyFails
    \/ ClickStrategyNotApplicable
    \/ ClickAllFailed

ClickSpec == ClickInit /\ [][ClickNext]_vars

(***************************************************************************)
(* Properties                                                              *)
(***************************************************************************)

\* The navigation/verification loop has been left by its while test.
LoopExited ==
    \/ pc \in {"final", "finishing", "return", "returned"}
    \/ pc = "raised" /\ exc = "final"

\* The entry point has returned or raised.
SessionExited == pc \in {"returned", "raised", "run_done"}

\* The verifier answered RETRY in iteration n.
RetryAt(n) ==
    verdicts[n].shape = "structured" /\ verdicts[n].final_decision = "RETRY"

\* C1: the attempt counter never exceeds max_navigation_retries, and once the
\* loop has exited it lies between 1 and max_navigation_retries.
C1_CounterWithinLimit ==
    /\ navigation_retry_count <= max_navigation_retries
    /\ LoopExited => 1 <= navigation_retry_count

\* The loop has exited with the counter at the limit.
C1_Witness ==
    pc = "final" /\ navigation_retry_count = max_navigation_retries

\* C2: whatever the verifier answers, as long as every call returns or raises,
\* the loop is left (or the session ends) and no more than
\* max_navigation_retries navigation attempts are ever started.
C2_LoopTerminatesWithinLimit ==
    /\ [](Len(navCalls) <= max_navigation_retries)
    /\ (pc = "research") ~> (LoopExited \/ pc = "raised")

\* The verifier answered RETRY in every iteration and the loop was still left.
C2_Witness ==
    /\ LoopExited
    /\ Len(navCalls) = max_navigation_retries
    /\ \A n \in 1..Len(verdicts) : RetryAt(n)

\* C3: whenever the loop has exited without an exception, navigation_approved
\* is true.
C3_ExitedImpliesApproved == LoopExited => navigation_approved

\* The loop exits by forced acceptance at the attempt limit.
C3_Witness ==
    /\ pc = "final"
    /\ navigation_approved
    /\ Len(decisions) = max_navigation_retries
    /\ decisions[max_navigation_retries] = "RETRY"

\* C4: a RETRY verdict in the iteration whose counter equals
\* max_navigation_retries sets navigation_approved in that iteration, and no
\* further navigation attempt is started.
C4_RetryAtLimitIsAccepted ==
    \A n \in 1..Len(decisions) :
        (RetryAt(n) /\ verdicts[n].id = max_navigation_retries)
            => navigation_approved /\ Len(navCalls) = n

\* A run that ended after a RETRY verdict at the limit.
C4_Witness ==
    /\ pc = "returned"
    /\ Len(verdicts) = max_navigation_retries
    /\ RetryAt(max_navigation_retries)
    /\ verdicts[max_navigation_retries].id = max_navigation_retries

\* C5: a verification result without a structured verdict is decided as
\* PROCEED, ends the loop in that iteration, and raises nothing.
C5_MalformedVerdictFailsOpen ==
    \A n \in 1..Len(decisions) :
        verdicts[n].shape # "structured"
            => /\ decisions[n] = "PROCEED"
               /\ navigation_approved
               /\ Len(navCalls) = n
               /\ exc \in {"none", "final"}

\* A run whose first verification had no structured verdict and that returned.
C5_Witness ==
    /\ pc = "returned"
    /\ Len(decisions) = 1
    /\ verdicts[1].shape = "pydantic_none"

\* C6: the first navigation attempt is given no guidance, and attempt n+1 is
\* given the retry_guidance of the verdict on attempt n.
C6_GuidanceReachesNextAttempt ==
    \A n \in 1..Len(navCalls) :
        IF n = 1
        THEN \A g \in GuidanceIds : ~Carries(navCalls[n], Item("retry_guidance", g))
        ELSE Carries(navCalls[n], Item("retry_guidance", verdicts[n - 1].retry_guidance))

\* C7: each verification is given the testing instructions and the navigation
\* result produced in the same iteration.
C7_VerifierGivenAttemptResult ==
    \A n \in 1..Len(verifyCalls) :
        /\ ("testing_instructions" \in DOMAIN inputs
              => Carries(verifyCalls[n], Item("testing_instructions", 0)))
        /\ \E irs \in TestingInstructionResultLists :
              Carries(verifyCalls[n], NavigationResult(n, irs))

\* C8: the interview/report stage is started at most once, only after the loop
\* has been left on an approval, and exactly once in a run that returns.
C8_FinalStageExactlyOnceAfterLoop ==
    /\ Len(finalCalls) <= 1
    /\ pc \in {"loop", "navigate", "navigating", "verify", "verifying", "decide", "final"}
          => Len(finalCalls) = 0
    /\ Len(finalCalls) = 1
          => /\ navigation_approved
             /\ Len(decisions) >= 1
             /\ Len(decisions) = Len(navCalls)
    /\ pc \in {"return", "returned"} => Len(finalCalls) = 1

\* A run of two attempts that returned after one interview/report kickoff.
C8_Witness ==
    /\ pc = "returned"
    /\ Len(finalCalls) = 1
    /\ Len(navCalls) = 2

\* C9: the interview/report stage is given the final navigation result, the
\* final verdict and the attempt count.
C9_FinalStageGivenLoopOutput ==
    \A n \in 1..Len(finalCalls) :
        /\ Carries(finalCalls[n], navigation_result)
        /\ Carries(finalCalls[n], verification_result)
        /\ Carries(finalCalls[n], Item("navigation_retry_count", navigation_retry_count))

\* C10: once the browser tool has been acquired, every exit of the session has
\* closed the browser session.
C10_BrowserClosedOnEveryExit ==
    (SessionExited /\ browser # "none") => close_calls >= 1

\* The smaller of two numbers.
Min(a, b) == IF a <= b THEN a ELSE b

\* The verdict v is a structured RETRY.
IsRetry(v) == v.shape = "structured" /\ v.final_decision = "RETRY"

\* min(max_navigation_retries, k), k the index of the first verdict of vs that is
\* not RETRY (no such verdict: max_navigation_retries).
ExpectedIterations(vs) ==
    LET S == {n \in 1..Len(vs) : ~IsRetry(vs[n])}
    IN  IF S = {} THEN max_navigation_retries
        ELSE Min(max_navigation_retries, CHOOSE n \in S : \A m \in S : n <= m)

\* C11: a configuration lacking a required field never gets a browser tool
\* constructed and never has a navigation attempt started or a result produced.
C11_NoBrowserForInvalidConfig ==
    ~(RequiredKeys \subseteq DOMAIN inputs)
        => /\ browser = "none"
           /\ open_calls = 0
           /\ navCalls = <<>>
           /\ navigation_result = NoneItem

\* C14: once the loop has exited, the number of iterations run equals
\* min(max_navigation_retries, k), k the first attempt whose verdict is not RETRY.
C14_IterationCount ==
    LoopExited
        => /\ Len(navCalls) = ExpectedIterations(verdicts)
           /\ navigation_retry_count = ExpectedIterations(verdicts)

\* RETRY followed by PROCEED: a run of exactly two iterations.
C14_Witness ==
    /\ pc = "returned"
    /\ navigation_retry_count = 2
    /\ IsRetry(verdicts[1])
    /\ verdicts[2].shape = "structured"
    /\ verdicts[2].final_decision = "PROCEED"

\* C15: a raising research stage ends the method with no navigation attempt,
\* verification, interview or report started; a raising interview/report stage
\* ends it with no result dictionary returned.
C15_StageFailureFailsFast ==
    /\ exc = "research"
          => /\ pc = "raised"
             /\ navCalls = <<>>
             /\ verifyCalls = <<>>
             /\ finalCalls = <<>>
             /\ returned = <<>>
    /\ exc = "final" => pc = "raised" /\ returned = <<>>

\* The research crew was kicked off and raised.
C15_Witness ==
    /\ exc = "research"
    /\ pc = "raised"
    /\ Len(researchCalls) = 1

\* C16: a raising navigation attempt ends the session after the browser session
\* has been cleaned up, with that attempt unverified, no further attempt and no
\* interview/report stage.
C16_NavigationFailureAbortsAfterCleanup ==
    exc = "navigation"
        => /\ pc = "raised"
           /\ close_calls >= 1
           /\ Len(verifyCalls) = Len(navCalls) - 1
           /\ finalCalls = <<>>

\* C17: the browser session is opened once, stays open and is the constructed tool
\* throughout the loop, and has been closed exactly once when the session ends.
C17_BrowserOpenedOnceClosedOnce ==
    /\ open_calls <= 1
    /\ navCalls # <<>> => open_calls = 1
    /\ pc \in {"loop", "navigate", "navigating", "verify", "verifying", "decide"}
          => browser = "open" /\ stagehand_tool = "tool" /\ close_calls = 0
    /\ (SessionExited /\ open_calls = 1) => close_calls = 1

\* C19: from a state in which navigation_approved is true, no step starts a
\* navigation attempt or a verification, changes the counter or clears the flag.
C19_ApprovedIsFinal ==
    [][navigation_approved
         => /\ navigation_approved'
            /\ navCalls' = navCalls
            /\ verifyCalls' = verifyCalls
            /\ navigation_retry_count' = navigation_retry_count]_vars

\* Approval was given below the attempt limit and the loop has been left.
C19_Witness ==
    /\ navigation_approved
    /\ pc = "final"
    /\ navigation_retry_count < max_navigation_retries

\* C20: a RETRY verdict none of whose task verifications has can_retry set is
\* terminal: navigation_approved is set and no further attempt is started.
C20_RetryWithoutRetryableTaskIsTerminal ==
    \A n \in 1..Len(decisions) :
        (IsRetry(verdicts[n])
           /\ \A t \in DOMAIN verdicts[n].task_verifications :
                 ~verdicts[n].task_verifications[t].can_retry)
            => navigation_approved /\ Len(navCalls) = n

\* validate_config has returned or raised.
Validated == v_pc \in {"returned", "raised"}

\* A required top-level value that is absent, empty or not a string.
RequiredFieldBad(v) == v.type = "absent" \/ v.type # "str" \/ v.val = ""

\* Whether v is a proper value for key k of a testing instruction: free text for
\* task, success_criteria and fallback_action, one of low/medium/high for
\* priority, a positive integer for max_attempts.
InstructionFieldOk(k, v) ==
    IF k = "priority" THEN v.type = "str" /\ v.val \in {"low", "medium", "high"}
    ELSE IF k = "max_attempts" THEN v.type = "int" /\ v.val \notin {"0", "-1"}
    ELSE v.type = "str"

WellFormedInstruction(e) ==
    e.type = "dict" /\ \A k \in InstructionKeys : InstructionFieldOk(k, e.fields[k])

WellFormedInstructions(ti) ==
    \/ ti.type = "absent"
    \/ ti.type = "list" /\ \A n \in 1..Len(ti.items) : WellFormedInstruction(ti.items[n])

\* C12: for a configuration whose testing_instructions are absent or well-formed,
\* validate_config raises exactly when app_url or persona_type is absent, empty
\* or not a string.
C12_RequiredFieldsDecideValidation ==
    (Validated /\ WellFormedInstructions(config.testing_instructions))
        => ((v_pc = "raised")
              <=> (RequiredFieldBad(config.app_url) \/ RequiredFieldBad(config.persona_type)))

\* Two non-empty strings and no testing_instructions key: accepted.
C12_Witness ==
    /\ v_pc = "returned"
    /\ config.testing_instructions.type = "absent"
    /\ config.app_url = PyValue("str", "text")
    /\ config.persona_type = PyValue("str", "text")

\* C13 as claimed: a testing_instructions list holding a dictionary entry with a
\* missing or mistyped field is rejected.
C13_MistypedInstructionRejected ==
    (/\ Validated
     /\ config.testing_instructions.type = "list"
     /\ \E n \in 1..Len(config.testing_instructions.items) :
           ~WellFormedInstruction(config.testing_instructions.items[n]))
        => v_pc = "raised"

\* C13, amended: an entry that is not a dictionary or lacks one of the five keys is
\* rejected; with sound top-level fields, a list whose entries are dictionaries
\* holding all five keys is accepted whatever the values are.
C13_MissingInstructionFieldRejected ==
    (Validated /\ config.testing_instructions.type = "list")
        => LET items == config.testing_instructions.items
               Incomplete(e) ==
                   e.type # "dict" \/ \E k \in InstructionKeys : e.fields[k].type = "absent"
           IN  /\ (\E n \in 1..Len(items) : Incomplete(items[n])) => v_pc = "raised"
               /\ (/\ ~RequiredFieldBad(config.app_url)
                   /\ ~RequiredFieldBad(config.persona_type)
                   /\ \A n \in 1..Len(items) : ~Incomplete(items[n]))
                      => v_pc = "returned"

\* An entry with all five keys, priority "urgent" and max_attempts 0, was accepted.
C13_Witness ==
    /\ v_pc = "returned"
    /\ config.testing_instructions.type = "list"
    /\ Len(config.testing_instructions.items) >= 1
    /\ config.testing_instructions.items[1].fields["priority"] = PyValue("str", "urgent")
    /\ config.testing_instructions.items[1].fields["max_attempts"] = PyValue("int", "0")

\* C18: no file is written by more than one of the concurrent sessions.
C18_NoFileSharedBetweenSessions ==
    \A p \in Paths : Cardinality(writers[p]) <= 1

\* C21: every instruction result held in navigation_result, and in the returned
\* dictionary, reports attempts_made no larger than its max_attempts.
C21_AttemptsWithinLimit ==
    LET Within(nav) ==
            nav.kind = "navigation_result"
                => \A t \in DOMAIN nav.testing_instruction_results :
                      nav.testing_instruction_results[t].attempts_made
                          <= nav.testing_instruction_results[t].max_attempts
    IN  /\ Within(navigation_result)
        /\ \A n \in 1..Len(returned) : Within(returned[n].navigation_result)

\* C22: every verdict a decision was taken on is RETRY only if one of its task
\* verifications has can_retry set.
C22_RetryOnlyWithRetryableTask ==
    \A n \in 1..Len(decisions) :
        IsRetry(verdicts[n])
            => \E t \in DOMAIN verdicts[n].task_verifications :
                  verdicts[n].task_verifications[t].can_retry

\* C23: at most one crew is in flight at any time; research has returned before
\* the first navigation attempt starts, each attempt has returned before its
\* verification starts, the verification of attempt n has returned before attempt
\* n+1 starts, and the interview/report stage starts only after the last
\* verification has returned.
C23_StagesNeverOverlap ==
    /\ Cardinality(running) <= 1
    /\ navCalls # <<>>
          => "research" \notin running /\ persona_research_result # NoneItem
    /\ Len(verifyCalls) <= Len(navCalls)
    /\ Len(verifyCalls) = Len(navCalls) => "navigation" \notin running
    /\ Len(navCalls) <= Len(verdicts) + 1
    /\ "navigation" \in running
          => Len(verifyCalls) = Len(navCalls) - 1 /\ Len(verdicts) = Len(navCalls) - 1
    /\ finalCalls # <<>>
          => Len(verdicts) = Len(navCalls) /\ running \subseteq {"final"}

\* The verification of the second attempt is in flight, alone.
C23_Witness ==
    /\ pc = "verifying"
    /\ Len(navCalls) = 2
    /\ running = {"verification"}

\* C24: an iteration whose decision was defaulted for lack of a structured verdict
\* prints something an iteration with a genuine PROCEED verdict does not.
C24_FailOpenLoggedAsDegraded ==
    \A n \in 1..Len(printed) :
        verdicts[n].shape # "structured"
            => \A v \in VerificationResults(n) :
                  (v.shape = "structured" /\ v.final_decision = "PROCEED")
                      => printed[n] # DecisionLines(v, "PROCEED", n)

\* C25: cleanup never raises, and a cleanup whose close() failed (the attribute
\* still holds the tool) has returned or logged a status.
C25_CleanupFailureObservable ==
    /\ exc # "cleanup"
    /\ (cleanup_calls >= 1 /\ stagehand_tool = "tool") => cleanup_reports # <<>>

\* C26: the inputs mapping is never modified, and every crew kickoff of the
\* session was given exactly that mapping.
C26_InputsPassedUnchanged ==
    /\ [][inputs' = inputs]_vars
    /\ [](\A calls \in {researchCalls, navCalls, verifyCalls, finalCalls} :
             \A n \in 1..Len(calls) : calls[n] = inputs)

\* Two attempts, the first answered with RETRY and a guidance text, and the session
\* has returned.
C26_Witness ==
    /\ pc = "returned"
    /\ Len(navCalls) = 2
    /\ IsRetry(verdicts[1])
    /\ verdicts[1].retry_guidance = 1

\* C27: the returned dictionary holds the navigation result and the verdict of the
\* last iteration and the number of iterations run; a RETRY accepted at the limit
\* is returned as RETRY.
C27_ReturnedDictIsLastIteration ==
    \A n \in 1..Len(returned) :
        /\ returned[n].navigation_result.kind = "navigation_result"
        /\ returned[n].navigation_result.id = Len(navCalls)
        /\ returned[n].verification_result = verdicts[Len(verdicts)]
        /\ returned[n].verification_result.id = Len(navCalls)
        /\ returned[n].navigation_retry_count = Len(navCalls)
        /\ IsRetry(verdicts[Len(verdicts)])
              => returned[n].verification_result.final_decision = "RETRY"

\* The session returned after a RETRY verdict on the last allowed attempt.
C27_Witness ==
    /\ returned # <<>>
    /\ Len(navCalls) = max_navigation_retries
    /\ IsRetry(verdicts[max_navigation_retries])

\* C28: a session driven by run() never enters the retry loop and executes the
\* navigation task at most once whatever the verifier answers; cleanup has been
\* called exactly once when kickoff has returned or raised, and never when the
\* constructor raised.
C28_RunIsSinglePassWithOneCleanup ==
    entry = "run"
        => /\ navCalls = <<>> /\ verifyCalls = <<>> /\ decisions = <<>>
           /\ Cardinality({n \in 1..Len(crew_tasks_run) :
                              crew_tasks_run[n] = "persona_navigation_task"}) <= 1
           /\ cleanup_calls <= 1
           /\ (pc \in {"run_print", "run_done"} \/ (pc = "raised" /\ exc # "construct"))
                 => cleanup_calls = 1
           /\ exc = "construct" => cleanup_calls = 0

\* run() finished after the verification task answered RETRY.
C28_Witness ==
    /\ entry = "run"
    /\ pc = "run_done"
    /\ Len(verdicts) = 1
    /\ IsRetry(verdicts[1])
    /\ Len(crew_tasks_run) = Len(CrewTasks)
    /\ cleanup_calls = 1

\* C29: load_and_validate returns a configuration only after validate_config has
\* accepted it; an unsupported extension raises ValueError before the file is
\* opened; an empty document and a syntax error raise ValueError; a missing file
\* raises FileNotFoundError; the ValueError of validate_config leaves unchanged;
\* every other exception leaves as RuntimeError.
C29_LoadAndValidateOutcomes ==
    l_pc \in {"returned", "raised"}
        => LET e == l_outcome.raised
               doc == l_file.doc
               parsed == l_file.state = "document"
           IN  /\ l_pc = "returned"
                     => /\ l_outcome.validated
                        /\ l_outcome.value = doc
                        /\ doc.type = "dict"
                        /\ ValidateConfig(doc.config) = NoError
               /\ l_suffix = ".json" => e.type = "ValueError" /\ ~l_outcome.opened
               /\ l_suffix # ".json"
                     => /\ l_file.state = "missing" => e.type = "FileNotFoundError"
                        /\ l_file.state = "syntax_error" => e.type = "ValueError"
                        /\ (parsed /\ doc.type = "NoneType") => e.type = "ValueError"
                        /\ (parsed /\ ValidateDocument(doc).type = "ValueError"
                              /\ doc.type # "NoneType")
                              => e = ValidateDocument(doc)
                        /\ (\/ l_file.state \in {"unreadable", "undecodable"}
                            \/ parsed /\ doc.type = "int")
                              => e.type = "RuntimeError"

\* C30: click_element always returns a message; for a selector that matches nothing
\* or is invalid it enters no strategy and makes no click; otherwise the strategy
\* blocks are entered in the order standard, force, scroll, JavaScript, coordinate,
\* text (text only for a selector containing ':has-text('), each only after every
\* earlier one ended without success; the first success returns its message; and
\* 'All click strategies failed' is returned only when every strategy that applies
\* has been entered and none succeeded.
C30_ClickStrategiesInOrder ==
    LET Order == <<"standard", "force", "scroll", "javascript", "coordinate", "text">>
        Succeeded(i) == c_tried[i].outcome = "succeeded"
    IN  /\ c_pc = "returned" => c_result # NoMessage
        /\ c_selector.matches # "some"
              => /\ c_tried = <<>>
                 /\ c_clicks = <<>>
                 /\ c_pc = "returned"
                       => c_result \in {FailureMessage("No elements found with selector"),
                                        FailureMessage("Invalid selector"),
                                        FailureMessage("Critical error in click_element")}
        /\ \A i \in 1..Len(c_tried) :
              /\ c_tried[i].strategy = Order[i]
              /\ c_tried[i].strategy = "text" => c_selector.has_text
              /\ Succeeded(i)
                    => /\ i = Len(c_tried)
                       /\ c_pc = "returned"
                       /\ c_result = SuccessMessage(Order[i])
        /\ \A i \in 1..Len(c_clicks) :
              \E j \in 1..Len(c_tried) : c_tried[j].strategy = c_clicks[i]
        /\ c_result.message = "Successfully clicked"
              => c_tried # <<>> /\ Succeeded(Len(c_tried))
        /\ c_result.message = "All click strategies failed"
              => /\ Len(c_tried) = IF c_selector.has_text THEN Len(Order) ELSE Len(Order) - 1
                 /\ \A i \in 1..Len(c_tried) : ~Succeeded(i)

\* Five strategies ended without success and the text click succeeded.
C30_Witness ==
    /\ c_pc = "returned"
    /\ c_result = SuccessMessage("text")
    /\ Len(c_tried) = Len(ClickStrategies)
    /\ c_clicks # <<"text">>

====
